---- MODULE Spec2Model ----
(***************************************************************************)
(* Habit tracker (HabitTrackerApp.py): the Habit entity, the HabitTracker  *)
(* aggregate with its two indexes, persistence to habits.json, and the     *)
(* sessions of the command line program cli().                             *)
(*                                                                         *)
(* Habit objects live in a heap and are referred to by reference, because  *)
(* the name map and the periodicity buckets share the same objects and     *)
(* list.remove compares by identity.  A calendar date is a day number; a   *)
(* datetime is a record of the calendar date and the microsecond field     *)
(* (the hour/minute/second fields are written and parsed unconditionally   *)
(* by isoformat/fromisoformat and are left out).  An optional value is the *)
(* empty sequence (None) or a one-element sequence.                        *)
(***************************************************************************)
EXTENDS Integers, Sequences, FiniteSets, TLC

\* ---- bounds and input sets -------------------------------------------------
MaxObjs == 3             \* Spec: Habit objects alive
MaxCheckoffs == 1        \* Spec, SpecPersist: checkoffs recorded in the objects alive
MaxPersistObjs == 2      \* SpecPersist: Habit objects alive
MaxDay == 3              \* SpecHabit: the calendar runs over days 0..MaxDay
MaxHabitCheckoffs == 3   \* SpecHabit: checkoffs recorded in the habit
MaxLen == 6              \* length of a drawn checkoff history (pure-function specs)
MaxDate == 7             \* dates of a drawn checkoff history: 1..MaxDate
MaxQueryObjs == 2        \* SpecQuery, SpecMonth: Habit objects alive
MaxQueryCheckoffs == 2   \* SpecQuery, SpecMonth: checkoffs recorded in the objects alive
MaxCliCheckoffs == 1     \* SpecCli: checkoffs of a habit on the day of the sessions
MaxCliSameName == 2      \* SpecCli: Habit objects of one name alive

Names == {"a", "b"}
Periods == {1, 2}
UseDays == {0, 1, 31}   \* SpecMonth: the calendar days on which the program is used
Micros == {0, 5}     \* microsecond fields of a clock read: on the whole second, off it
\* 7: the periodicity of the predefined weekly habit; 99: one no habit is ever given
PeriodKeys == Periods \cup {7, 99}
\* references: load_from_file builds its Habits while the old ones are still alive,
\* and cli() keeps the loaded Habits next to the predefined ones
Refs == 1..(4 * MaxObjs)

None == <<>>
Some(x) == <<x>>

VARIABLES
    heap,                   \* reference -> Habit object
    habits,                 \* HabitTracker.habits: dict, as <<[name, ref]>> in insertion order
    habits_by_periodicity,  \* HabitTracker.habits_by_periodicity: defaultdict(list), key -> <<ref>>
    file,                   \* habits.json: None, or Some(document)
    clock,                  \* the calendar date of the system clock
    lastOp,                 \* the operation that ran last, its arguments and the branch it took
    ret,                    \* what the operation that ran last returned
    raised,                 \* whether the operation that ran last raised
    pc                      \* where the program cli() stands: [at, i]

vars == <<heap, habits, habits_by_periodicity, file, clock, lastOp, ret, raised, pc>>

\* ---- helpers ---------------------------------------------------------------
Range(s) == {s[i] : i \in 1..Len(s)}

SetMax(S) == CHOOSE x \in S : \A y \in S : y <= x

RECURSIVE SeqFilter(_, _)
\* s without every element that is not in S, order kept
SeqFilter(s, S) ==
    IF s = <<>> THEN <<>>
    ELSE IF Head(s) \in S THEN <<Head(s)>> \o SeqFilter(Tail(s), S)
    ELSE SeqFilter(Tail(s), S)

\* ---- datetime --------------------------------------------------------------
datetime(d, us) == [date |-> d, micro |-> us]

date(dt) == dt.date

\* isoformat that never writes the fraction (timespec="seconds")
isoformat_seconds(dt) == <<dt.date>>

\* datetime.isoformat(): the fraction is written only when microsecond # 0
isoformat(dt) == IF dt.micro = 0 THEN <<dt.date>> ELSE <<dt.date, dt.micro>>

\* datetime.fromisoformat(): a missing fraction parses as microsecond 0
fromisoformat(s) == IF Len(s) = 1 THEN datetime(s[1], 0) ELSE datetime(s[1], s[2])

\* ---- Habit -----------------------------------------------------------------
Habit_init(name, periodicity, created_at) ==
    [name |-> name, periodicity |-> periodicity, created_at |-> created_at,
     checkoffs |-> <<>>, streak |-> 0, last_checkoff_date |-> None]

\* checkoff with the lapse test written >=: a checkoff exactly periodicity days
\* after the last one resets the streak
checkoff_ge(h, today, now) ==
    LET reset == /\ h.last_checkoff_date # None
                 /\ today - h.last_checkoff_date[1] >= h.periodicity
        streak0 == IF reset THEN 0 ELSE h.streak
    IN [h EXCEPT !.checkoffs = Append(@, now),
                 !.last_checkoff_date = Some(today),
                 !.streak = streak0 + 1]

\* today is the date.today() read, now the later datetime.now() read
checkoff(h, today, now) ==
    LET reset == /\ h.last_checkoff_date # None
                 /\ today - h.last_checkoff_date[1] > h.periodicity
        streak0 == IF reset THEN 0 ELSE h.streak
    IN [h EXCEPT !.checkoffs = Append(@, now),
                 !.last_checkoff_date = Some(today),
                 !.streak = streak0 + 1]

\* current_streak with the lapse test written <
current_streak_lt(h, today) ==
    IF /\ h.last_checkoff_date # None
       /\ today - h.last_checkoff_date[1] < h.periodicity
    THEN h.streak
    ELSE 0

current_streak(h, today) ==
    IF /\ h.last_checkoff_date # None
       /\ today - h.last_checkoff_date[1] <= h.periodicity
    THEN h.streak
    ELSE 0

RECURSIVE longest_streak_loop(_, _, _, _, _)
\* the for loop of longest_streak from index i on; returns the list streaks
longest_streak_loop(checkoffs, periodicity, i, streaks, cur) ==
    IF i > Len(checkoffs) THEN Append(streaks, cur)
    ELSE IF date(checkoffs[i]) - date(checkoffs[i - 1]) <= periodicity
         THEN longest_streak_loop(checkoffs, periodicity, i + 1, streaks, cur + 1)
         ELSE longest_streak_loop(checkoffs, periodicity, i + 1, Append(streaks, cur), 1)

\* longest_streak returning the run still open at the end of the loop, not the max
longest_streak_last(h) ==
    IF h.checkoffs = <<>> THEN 0
    ELSE LET streaks == longest_streak_loop(h.checkoffs, h.periodicity, 2, <<>>, 1)
         IN streaks[Len(streaks)]

longest_streak(h) ==
    IF h.checkoffs = <<>> THEN 0
    ELSE SetMax(Range(longest_streak_loop(h.checkoffs, h.periodicity, 2, <<>>, 1)))

to_dict(h) ==
    [name |-> h.name, periodicity |-> h.periodicity,
     created_at |-> isoformat(h.created_at),
     checkoffs |-> [i \in 1..Len(h.checkoffs) |-> isoformat(h.checkoffs[i])]]

from_dict(data) ==
    LET habit == Habit_init(data.name, data.periodicity, fromisoformat(data.created_at))
        cs == [i \in 1..Len(data.checkoffs) |-> fromisoformat(data.checkoffs[i])]
    IN [habit EXCEPT !.checkoffs = cs,
                     !.last_checkoff_date =
                         IF cs # <<>> THEN Some(date(cs[Len(cs)])) ELSE None]

\* ---- dict and list primitives ----------------------------------------------
\* a dict is a sequence of [name, ref] items with distinct names, in insertion order
HasKey(d, name) == \E i \in 1..Len(d) : d[i].name = name

IndexOf(d, name) == CHOOSE i \in 1..Len(d) : d[i].name = name

Lookup(d, name) == d[IndexOf(d, name)].ref

\* d.setdefault(name, ref): an existing key keeps its old value
DictSet_setdefault(d, name, ref) ==
    IF HasKey(d, name) THEN d ELSE Append(d, [name |-> name, ref |-> ref])

\* d[name] = ref: an existing key keeps its position
DictSet(d, name, ref) ==
    IF HasKey(d, name) THEN [d EXCEPT ![IndexOf(d, name)].ref = ref]
    ELSE Append(d, [name |-> name, ref |-> ref])

\* d.pop(name), the dict that remains
DictPop(d, name) ==
    LET k == IndexOf(d, name)
    IN [i \in 1..(Len(d) - 1) |-> IF i < k THEN d[i] ELSE d[i + 1]]

Values(d) == [i \in 1..Len(d) |-> d[i].ref]

\* list.remove(x): drops the first occurrence (Habit defines no __eq__: identity)
ListRemove(l, x) ==
    LET k == CHOOSE i \in 1..Len(l) : l[i] = x /\ \A j \in 1..(i - 1) : l[j] # x
    IN [i \in 1..(Len(l) - 1) |-> IF i < k THEN l[i] ELSE l[i + 1]]

\* defaultdict(list): a key that was never assigned reads as the empty list, and
\* nothing in the program enumerates the keys, so the dict is the total map from
\* periodicity to list
defaultdict_list == [key \in PeriodKeys |-> <<>>]

\* ---- object lifetime ---------------------------------------------------------
\* the Habit objects the tracker still refers to
Live(hs, buckets) ==
    Range(Values(hs)) \cup UNION {Range(buckets[p]) : p \in DOMAIN buckets}

\* an object no index refers to any more is freed
Collect(hp, hs, buckets) == [r \in Live(hs, buckets) |-> hp[r]]

FreeRefs == Refs \ DOMAIN heap

\* the i-th reference the allocator hands out next
NthFree(i) == CHOOSE r \in FreeRefs : Cardinality({q \in FreeRefs : q < r}) = i - 1

\* ---- HabitTracker ------------------------------------------------------------
Op(op, name, periodicity, found) ==
    [op |-> op, name |-> name, periodicity |-> periodicity, found |-> found]

\* us: the microsecond field datetime.now() returns in Habit.__init__
add_habit(name, periodicity, us) ==
    /\ FreeRefs # {}
    /\ LET ref == NthFree(1)
           habit == Habit_init(name, periodicity, datetime(clock, us))
           hs == DictSet(habits, name, ref)
           buckets == [habits_by_periodicity EXCEPT ![periodicity] = Append(@, ref)]
       IN /\ habits' = hs
          /\ habits_by_periodicity' = buckets
          /\ heap' = Collect(heap @@ (ref :> habit), hs, buckets)
    /\ lastOp' = Op("add_habit", name, periodicity, HasKey(habits, name))
    /\ ret' = None
    /\ raised' = "none"
    /\ UNCHANGED <<file, clock>>

\* delete_habit without its membership test: dict.pop raises on a missing name
delete_habit_unguarded(name) ==
    /\ IF HasKey(habits, name)
       THEN LET ref == Lookup(habits, name)
                hs == DictPop(habits, name)
                p == heap[ref].periodicity
                buckets == [habits_by_periodicity EXCEPT ![p] = ListRemove(@, ref)]
            IN /\ habits' = hs
               /\ habits_by_periodicity' = buckets
               /\ heap' = Collect(heap, hs, buckets)
               /\ raised' = "none"
       ELSE /\ UNCHANGED <<heap, habits, habits_by_periodicity>>
            /\ raised' = "KeyError"
    /\ lastOp' = Op("delete_habit", name, 0, HasKey(habits, name))
    /\ ret' = None
    /\ UNCHANGED <<file, clock>>

delete_habit(name) ==
    /\ IF HasKey(habits, name)
       THEN LET ref == Lookup(habits, name)
                hs == DictPop(habits, name)
                p == heap[ref].periodicity
                present == ref \in Range(habits_by_periodicity[p])
                buckets == IF present
                           THEN [habits_by_periodicity EXCEPT ![p] = ListRemove(@, ref)]
                           ELSE habits_by_periodicity
            IN /\ habits' = hs
               /\ habits_by_periodicity' = buckets
               /\ heap' = Collect(heap, hs, buckets)
               /\ raised' = IF present THEN "none" ELSE "ValueError"
       ELSE /\ UNCHANGED <<heap, habits, habits_by_periodicity>>
            /\ raised' = "none"
    /\ lastOp' = Op("delete_habit", name, 0, HasKey(habits, name))
    /\ ret' = None
    /\ UNCHANGED <<file, clock>>

\* checkoff_habit checking off every Habit in the bucket of the named one
checkoff_habit_bucket(name, nowDate, us) ==
    /\ nowDate \in {clock, clock + 1}
    /\ IF HasKey(habits, name)
       THEN LET p == heap[Lookup(habits, name)].periodicity
                bucket == Range(habits_by_periodicity[p])
            IN /\ heap' = [r \in DOMAIN heap |->
                              IF r \in bucket
                              THEN checkoff(heap[r], clock, datetime(nowDate, us))
                              ELSE heap[r]]
               /\ clock' = nowDate
       ELSE /\ nowDate = clock
            /\ us = 0
            /\ UNCHANGED <<heap, clock>>
    /\ lastOp' = Op("checkoff_habit", name, 0, HasKey(habits, name))
    /\ ret' = None
    /\ raised' = "none"
    /\ UNCHANGED <<habits, habits_by_periodicity, file>>

\* Habit.checkoff reads the clock twice: date.today() (the date is clock), then
\* datetime.now() (the date is nowDate, the microsecond field us); midnight may
\* pass between the two reads
checkoff_habit(name, nowDate, us) ==
    /\ nowDate \in {clock, clock + 1}
    /\ IF HasKey(habits, name)
       THEN LET ref == Lookup(habits, name)
            IN /\ heap' = [heap EXCEPT ![ref] = checkoff(@, clock, datetime(nowDate, us))]
               /\ clock' = nowDate
       ELSE /\ nowDate = clock
            /\ us = 0
            /\ UNCHANGED <<heap, clock>>
    /\ lastOp' = Op("checkoff_habit", name, 0, HasKey(habits, name))
    /\ ret' = None
    /\ raised' = "none"
    /\ UNCHANGED <<habits, habits_by_periodicity, file>>

get_all_habits ==
    /\ ret' = Values(habits)
    /\ lastOp' = Op("get_all_habits", "", 0, FALSE)
    /\ raised' = "none"
    /\ UNCHANGED <<heap, habits, habits_by_periodicity, file, clock>>

get_habits_by_periodicity(periodicity) ==
    /\ ret' = habits_by_periodicity[periodicity]
    /\ lastOp' = Op("get_habits_by_periodicity", "", periodicity, FALSE)
    /\ raised' = "none"
    /\ UNCHANGED <<heap, habits, habits_by_periodicity, file, clock>>

longest_streak_for_habit(name) ==
    /\ ret' = IF HasKey(habits, name)
              THEN longest_streak(heap[Lookup(habits, name)])
              ELSE 0
    /\ lastOp' = Op("longest_streak_for_habit", name, 0, HasKey(habits, name))
    /\ raised' = "none"
    /\ UNCHANGED <<heap, habits, habits_by_periodicity, file, clock>>

\* longest_streak_all taking its maximum over the Habits in the buckets
longest_streak_all_buckets ==
    /\ ret' = SetMax({0} \cup {longest_streak(heap[r]) :
                                  r \in UNION {Range(habits_by_periodicity[p]) :
                                                   p \in DOMAIN habits_by_periodicity}})
    /\ lastOp' = Op("longest_streak_all", "", 0, FALSE)
    /\ raised' = "none"
    /\ UNCHANGED <<heap, habits, habits_by_periodicity, file, clock>>

\* max(..., default=0) over self.habits.values()
longest_streak_all ==
    /\ ret' = IF habits = <<>> THEN 0
              ELSE SetMax({longest_streak(heap[r]) : r \in Range(Values(habits))})
    /\ lastOp' = Op("longest_streak_all", "", 0, FALSE)
    /\ raised' = "none"
    /\ UNCHANGED <<heap, habits, habits_by_periodicity, file, clock>>

\* habits_struggled_last_month with the comparison written <=
habits_struggled_last_month_le ==
    /\ LET one_month_ago == clock - 30
           refs == Values(habits)
           struggled == SeqFilter(refs,
                            {r \in Range(refs) :
                                \/ heap[r].checkoffs = <<>>
                                \/ date(heap[r].checkoffs[Len(heap[r].checkoffs)])
                                       <= one_month_ago})
       IN ret' = [i \in 1..Len(struggled) |-> heap[struggled[i]].name]
    /\ lastOp' = Op("habits_struggled_last_month", "", 0, FALSE)
    /\ raised' = "none"
    /\ UNCHANGED <<heap, habits, habits_by_periodicity, file, clock>>

\* the clock is read once, date.today(); the names come in the dict's order
habits_struggled_last_month ==
    /\ LET one_month_ago == clock - 30
           refs == Values(habits)
           struggled == SeqFilter(refs,
                            {r \in Range(refs) :
                                \/ heap[r].checkoffs = <<>>
                                \/ date(heap[r].checkoffs[Len(heap[r].checkoffs)])
                                       < one_month_ago})
       IN ret' = [i \in 1..Len(struggled) |-> heap[struggled[i]].name]
    /\ lastOp' = Op("habits_struggled_last_month", "", 0, FALSE)
    /\ raised' = "none"
    /\ UNCHANGED <<heap, habits, habits_by_periodicity, file, clock>>

\* Habit.current_streak() of the habit registered under name
habit_current_streak(name) ==
    /\ HasKey(habits, name)
    /\ ret' = current_streak(heap[Lookup(habits, name)], clock)
    /\ lastOp' = Op("current_streak", name, 0, TRUE)
    /\ raised' = "none"
    /\ UNCHANGED <<heap, habits, habits_by_periodicity, file, clock>>

\* json.dump of {name: habit.to_dict()}: the document keeps the dict's order
save_document(hp, hs) ==
    [i \in 1..Len(hs) |-> [key |-> hs[i].name, value |-> to_dict(hp[hs[i].ref])]]

save_to_file ==
    /\ file' = Some(save_document(heap, habits))
    /\ lastOp' = Op("save_to_file", "", 0, FALSE)
    /\ ret' = None
    /\ raised' = "none"
    /\ UNCHANGED <<heap, habits, habits_by_periodicity, clock>>

\* the buckets load_from_file rebuilds: a fresh defaultdict, then each habit of
\* hs appended to the list under its periodicity, in dict order
rebuild_index(hp, hs) ==
    LET refs == Values(hs)
    IN [p \in PeriodKeys |->
           SeqFilter(refs, {r \in Range(refs) : hp[r].periodicity = p})]

load_from_file ==
    /\ IF file # None
       THEN LET doc == file[1]
                hs == [i \in 1..Len(doc) |-> [name |-> doc[i].key, ref |-> NthFree(i)]]
                hp == [r \in {NthFree(i) : i \in 1..Len(doc)} |->
                          from_dict(doc[CHOOSE i \in 1..Len(doc) : NthFree(i) = r].value)]
            IN /\ Cardinality(FreeRefs) >= Len(doc)
               /\ habits' = hs
               /\ habits_by_periodicity' = rebuild_index(hp, hs)
               /\ heap' = hp
       ELSE UNCHANGED <<heap, habits, habits_by_periodicity>>
    /\ lastOp' = Op("load_from_file", "", 0, file # None)
    /\ ret' = None
    /\ raised' = "none"
    /\ UNCHANGED <<file, clock>>

\* a day passes
Tick ==
    /\ clock' = clock + 1
    /\ lastOp' = Op("tick", "", 0, FALSE)
    /\ ret' = None
    /\ raised' = "none"
    /\ UNCHANGED <<heap, habits, habits_by_periodicity, file>>

\* the program is not used for a number of days
Elapse(days) ==
    /\ clock' = clock + days
    /\ lastOp' = Op("elapse", "", 0, FALSE)
    /\ ret' = None
    /\ raised' = "none"
    /\ UNCHANGED <<heap, habits, habits_by_periodicity, file>>

\* ---- cli() ---------------------------------------------------------------------
\* a position of cli(): at names the statement, i counts the iterations of its loop
At(at, i) == [at |-> at, i |-> i]

\* the texts typed at the prompts
TypedNames == {"Exercise", "a"}   \* a predefined habit, and one of the user's own
OwnNames == {"a"}                \* the names typed for a habit to add or to delete
TypedNumbers == {"1", "abc"}
Responses == {"yes", "no", "maybe"}
Choices == {"1", "2", "3", "4", "5", "6", "7", "8", "9"}

predefined_habits ==
    <<[name |-> "Read 10 Pages", periodicity |-> 1,
       checkoffs |-> <<"2023-07-01", "2023-07-02", "2023-07-03", "2023-07-04",
                       "2023-07-05", "2023-07-06", "2023-07-07">>],
      [name |-> "Exercise", periodicity |-> 1,
       checkoffs |-> <<"2023-07-01", "2023-07-02", "2023-07-03", "2023-07-05",
                       "2023-07-06", "2023-07-07">>],
      [name |-> "Drink 2.5 Liters of Water", periodicity |-> 1,
       checkoffs |-> <<"2023-07-01", "2023-07-02", "2023-07-04", "2023-07-05",
                       "2023-07-06">>],
      [name |-> "Meditate for 10 Minutes", periodicity |-> 1,
       checkoffs |-> <<"2023-07-01", "2023-07-03", "2023-07-04", "2023-07-06">>],
      [name |-> "Weekly Review", periodicity |-> 7,
       checkoffs |-> <<"2023-06-30">>]>>

questions ==
    <<"Did you read 10 pages today? ", "Did you exercise today? ",
      "Did you drink 2.5 liters of water today? ",
      "Did you meditate for 10 minutes today? ", "Did you review your week? ">>

\* datetime.strptime(text, "%Y-%m-%d"): midnight of the day; day 0 is 2023-07-08
strptime(text) ==
    datetime(CASE text = "2023-06-30" -> 0 - 8
               [] text = "2023-07-01" -> 0 - 7
               [] text = "2023-07-02" -> 0 - 6
               [] text = "2023-07-03" -> 0 - 5
               [] text = "2023-07-04" -> 0 - 4
               [] text = "2023-07-05" -> 0 - 3
               [] text = "2023-07-06" -> 0 - 2
               [] text = "2023-07-07" -> 0 - 1, 0)

\* int(text): the number, or None where int raises ValueError
int(text) ==
    CASE text = "1" -> Some(1)
      [] text = "2" -> Some(2)
      [] text = "7" -> Some(7)
      [] OTHER -> None

\* an exception leaves cli(): the interpreter prints the traceback and exits
Traceback(op, name, exception) ==
    /\ pc' = At("traceback", 0)
    /\ raised' = exception
    /\ lastOp' = Op(op, name, 0, FALSE)
    /\ ret' = None
    /\ UNCHANGED <<heap, habits, habits_by_periodicity, file, clock>>

\* run(): a new process, habit_tracker = HabitTracker()
run ==
    /\ pc.at \in {"stopped", "exit", "traceback"}
    /\ heap' = <<>>
    /\ habits' = <<>>
    /\ habits_by_periodicity' = defaultdict_list
    /\ pc' = At("load", 0)
    /\ lastOp' = Op("HabitTracker", "", 0, FALSE)
    /\ ret' = None
    /\ raised' = "none"
    /\ UNCHANGED <<file, clock>>

cli_load ==
    /\ pc.at = "load"
    /\ load_from_file
    /\ pc' = At("seed", 1)

\* one iteration of the loop over predefined_habits
cli_seed ==
    /\ pc.at = "seed"
    /\ FreeRefs # {}
    /\ LET habit_data == predefined_habits[pc.i]
           ref == NthFree(1)
           cs == [k \in 1..Len(habit_data.checkoffs) |-> strptime(habit_data.checkoffs[k])]
           created == Habit_init(habit_data.name, habit_data.periodicity, datetime(clock, 0))
           habit == [created EXCEPT !.checkoffs = cs,
                                    !.last_checkoff_date =
                                        IF cs # <<>> THEN Some(date(cs[Len(cs)])) ELSE None]
           hs == DictSet(habits, habit.name, ref)
           buckets == [habits_by_periodicity EXCEPT ![habit.periodicity] = Append(@, ref)]
       IN /\ habits' = hs
          /\ habits_by_periodicity' = buckets
          /\ heap' = Collect(heap @@ (ref :> habit), hs, buckets)
          /\ lastOp' = Op("seed", habit.name, habit.periodicity, HasKey(habits, habit.name))
    /\ pc' = IF pc.i < Len(predefined_habits) THEN At("seed", pc.i + 1) ELSE At("name", 0)
    /\ ret' = None
    /\ raised' = "none"
    /\ UNCHANGED <<file, clock>>

\* input("What's your name? ")
cli_name ==
    /\ pc.at = "name"
    /\ pc' = At("quiz", 1)
    /\ lastOp' = Op("input", "", 0, FALSE)
    /\ ret' = None
    /\ raised' = "none"
    /\ UNCHANGED <<heap, habits, habits_by_periodicity, file, clock>>

\* get_user_input(question, ["yes", "no"]): one pass of its loop; the score the
\* answers add up to is only printed
cli_question(response) ==
    /\ pc.at = "quiz"
    /\ LET valid == response \in {"yes", "no"}
       IN /\ pc' = IF ~valid THEN pc
                   ELSE IF pc.i < Len(questions) THEN At("quiz", pc.i + 1)
                   ELSE At("menu", 0)
          /\ lastOp' = Op("get_user_input", response, pc.i, valid)
    /\ ret' = None
    /\ raised' = "none"
    /\ UNCHANGED <<heap, habits, habits_by_periodicity, file, clock>>

cli_option1 ==
    /\ pc.at = "menu"
    /\ get_all_habits
    /\ UNCHANGED pc

cli_option2(text) ==
    /\ pc.at = "menu"
    /\ IF int(text) = None
       THEN Traceback("option2", text, "ValueError")
       ELSE /\ get_habits_by_periodicity(int(text)[1])
            /\ UNCHANGED pc

cli_option3(habit_name) ==
    /\ pc.at = "menu"
    /\ checkoff_habit(habit_name, clock, 0)
    /\ UNCHANGED pc

cli_option4(habit_name, text) ==
    /\ pc.at = "menu"
    /\ IF int(text) = None
       THEN Traceback("option4", text, "ValueError")
       ELSE /\ add_habit(habit_name, int(text)[1], 0)
            /\ UNCHANGED pc

\* list.remove raising ValueError would leave cli() as well
cli_option5(habit_name) ==
    /\ pc.at = "menu"
    /\ delete_habit(habit_name)
    /\ pc' = IF raised' = "none" THEN pc ELSE At("traceback", 0)

cli_option6(habit_name) ==
    /\ pc.at = "menu"
    /\ IF habit_name # ""
       THEN longest_streak_for_habit(habit_name)
       ELSE longest_streak_all
    /\ UNCHANGED pc

\* option 7 calls three queries in a row
cli_option7 ==
    \/ /\ pc.at = "menu"
       /\ longest_streak_all
       /\ pc' = At("analyse", 1)
    \/ /\ pc = At("analyse", 1)
       /\ get_habits_by_periodicity(1)
       /\ pc' = At("analyse", 2)
    \/ /\ pc = At("analyse", 2)
       /\ habits_struggled_last_month
       /\ pc' = At("menu", 0)

cli_option8 ==
    /\ pc.at = "menu"
    /\ save_to_file
    /\ pc' = At("exit", 0)

\* any other choice: "Invalid option. Please try again."
cli_invalid(choice) ==
    /\ pc.at = "menu"
    /\ choice \notin {"1", "2", "3", "4", "5", "6", "7", "8"}
    /\ lastOp' = Op("invalid", choice, 0, FALSE)
    /\ ret' = None
    /\ raised' = "none"
    /\ UNCHANGED <<heap, habits, habits_by_periodicity, file, clock, pc>>

\* ---- specifications ----------------------------------------------------------
RECURSIVE SumLen(_, _)
SumLen(hp, S) ==
    IF S = {} THEN 0
    ELSE LET r == CHOOSE x \in S : TRUE
         IN Len(hp[r].checkoffs) + SumLen(hp, S \ {r})

\* the checkoffs recorded in the Habit objects alive
TotalCheckoffs == SumLen(heap, DOMAIN heap)

\* HabitTracker(), before habits.json exists; cli() is not running
Init ==
    /\ heap = <<>>
    /\ habits = <<>>
    /\ habits_by_periodicity = defaultdict_list
    /\ file = None
    /\ clock = 0
    /\ lastOp = Op("init", "", 0, FALSE)
    /\ ret = None
    /\ raised = "none"
    /\ pc = At("stopped", 0)

\* Spec: the tracker's operations on several habits within one calendar day, the
\* clock on a whole second; the run changes the tracker until it saves, and what
\* it saved is loaded again
Next ==
    \/ \E name \in Names, periodicity \in Periods :
           /\ file = None
           /\ Cardinality(DOMAIN heap) < MaxObjs
           /\ add_habit(name, periodicity, 0)
           /\ UNCHANGED pc
    \/ \E name \in Names :
           /\ file = None
           /\ delete_habit(name)
           /\ UNCHANGED pc
    \/ \E name \in Names :
           /\ file = None
           /\ TotalCheckoffs < MaxCheckoffs
           /\ checkoff_habit(name, clock, 0)
           /\ UNCHANGED pc
    \/ \E name \in Names : longest_streak_for_habit(name) /\ UNCHANGED pc
    \/ save_to_file /\ UNCHANGED pc
    \/ load_from_file /\ UNCHANGED pc

Spec == Init /\ [][Next]_vars

\* SpecPersist: as Spec, with clock reads off the whole second
NextPersist ==
    \/ \E name \in Names, periodicity \in Periods, us \in Micros :
           /\ file = None
           /\ Cardinality(DOMAIN heap) < MaxPersistObjs
           /\ add_habit(name, periodicity, us)
           /\ UNCHANGED pc
    \/ \E name \in Names :
           /\ file = None
           /\ delete_habit(name)
           /\ UNCHANGED pc
    \/ \E name \in Names, us \in Micros :
           /\ file = None
           /\ TotalCheckoffs < MaxCheckoffs
           /\ checkoff_habit(name, clock, us)
           /\ UNCHANGED pc
    \/ save_to_file /\ UNCHANGED pc
    \/ load_from_file /\ UNCHANGED pc

SpecPersist == Init /\ [][NextPersist]_vars

\* SpecHabit: one habit, "a", over the days 0..MaxDay; "b" is never registered
NextHabit ==
    \/ \E periodicity \in Periods :
           /\ habits = <<>>
           /\ add_habit("a", periodicity, 0)
           /\ UNCHANGED pc
    \/ \E nowDate \in 0..MaxDay :
           /\ TotalCheckoffs < MaxHabitCheckoffs
           /\ checkoff_habit("a", nowDate, 0)
           /\ UNCHANGED pc
    \/ clock < MaxDay /\ Tick /\ UNCHANGED pc
    \/ get_all_habits /\ UNCHANGED pc
    \/ \E periodicity \in PeriodKeys : get_habits_by_periodicity(periodicity) /\ UNCHANGED pc
    \/ longest_streak_for_habit("a") /\ UNCHANGED pc
    \/ habit_current_streak("a") /\ UNCHANGED pc
    \/ save_to_file /\ UNCHANGED pc
    \/ load_from_file /\ UNCHANGED pc

SpecHabit == Init /\ [][NextHabit]_vars

\* SpecQuery: as Spec, with more checkoffs on fewer objects, and the queries that
\* aggregate over the habits
NextQuery ==
    \/ \E name \in Names, periodicity \in Periods :
           /\ file = None
           /\ Cardinality(DOMAIN heap) < MaxQueryObjs
           /\ add_habit(name, periodicity, 0)
           /\ UNCHANGED pc
    \/ \E name \in Names :
           /\ file = None
           /\ delete_habit(name)
           /\ UNCHANGED pc
    \/ \E name \in Names :
           /\ file = None
           /\ TotalCheckoffs < MaxQueryCheckoffs
           /\ checkoff_habit(name, clock, 0)
           /\ UNCHANGED pc
    \/ longest_streak_all /\ UNCHANGED pc
    \/ \E periodicity \in PeriodKeys : get_habits_by_periodicity(periodicity) /\ UNCHANGED pc
    \/ save_to_file /\ UNCHANGED pc
    \/ load_from_file /\ UNCHANGED pc

SpecQuery == Init /\ [][NextQuery]_vars

\* SpecMonth: daily habits, each checkoff within one calendar day, the program
\* used on the days UseDays, and the report on the habits not checked off lately
NextMonth ==
    \/ \E name \in Names :
           /\ Cardinality(DOMAIN heap) < MaxQueryObjs
           /\ add_habit(name, 1, 0)
           /\ UNCHANGED pc
    \/ \E name \in Names : delete_habit(name) /\ UNCHANGED pc
    \/ \E name \in Names :
           /\ TotalCheckoffs < MaxQueryCheckoffs
           /\ checkoff_habit(name, clock, 0)
           /\ UNCHANGED pc
    \/ \E day \in UseDays :
           /\ day > clock
           /\ Elapse(day - clock)
           /\ UNCHANGED pc
    \/ habits_struggled_last_month /\ UNCHANGED pc

SpecMonth == Init /\ [][NextMonth]_vars

\* the checkoffs of a Habit made on the day the clock shows
CheckoffsToday(h) == Cardinality({k \in 1..Len(h.checkoffs) : date(h.checkoffs[k]) = clock})

\* the Habit objects alive that carry the name
SameName(name) == {r \in DOMAIN heap : heap[r].name = name}

\* SpecCli: sessions of cli(), one after the other, all on 2023-07-08
NextCli ==
    \/ run
    \/ cli_load
    \/ cli_seed
    \/ cli_name
    \/ \E response \in Responses : cli_question(response)
    \/ cli_option1
    \/ \E text \in TypedNumbers : cli_option2(text)
    \/ \E habit_name \in TypedNames :
           /\ HasKey(habits, habit_name) =>
                  CheckoffsToday(heap[Lookup(habits, habit_name)]) < MaxCliCheckoffs
           /\ cli_option3(habit_name)
    \/ \E habit_name \in OwnNames, text \in TypedNumbers :
           /\ Cardinality(SameName(habit_name)) < MaxCliSameName
           /\ cli_option4(habit_name, text)
    \/ \E habit_name \in OwnNames : cli_option5(habit_name)
    \/ \E habit_name \in TypedNames \cup {""} : cli_option6(habit_name)
    \/ cli_option7
    \/ cli_option8
    \/ \E choice \in Choices : cli_invalid(choice)

SpecCli == Init /\ [][NextCli]_vars

\* SpecLongest: longest_streak on a habit with a drawn history
RECURSIVE Histories(_)
\* the non-decreasing sequences of at most n dates out of 1..MaxDate
Histories(n) ==
    IF n = 0 THEN {<<>>}
    ELSE LET shorter == Histories(n - 1)
         IN shorter \cup
            UNION {{Append(s, d) : d \in (IF s = <<>> THEN 1 ELSE s[Len(s)])..MaxDate} :
                       s \in {t \in shorter : Len(t) = n - 1}}

RECURSIVE Replay(_, _)
\* the Habit after one checkoff() on each of the dates
Replay(dates, periodicity) ==
    IF dates = <<>> THEN Habit_init("a", periodicity, datetime(1, 0))
    ELSE LET d == dates[Len(dates)]
         IN checkoff(Replay(SubSeq(dates, 1, Len(dates) - 1), periodicity), d, datetime(d, 0))

\* habit "a" as its checkoffs left it, or as load_from_file rebuilt it from them
InitLongest ==
    \E dates \in Histories(MaxLen), periodicity \in Periods, reloaded \in BOOLEAN :
        LET live == Replay(dates, periodicity)
            hs == <<[name |-> "a", ref |-> 1]>>
        IN /\ heap = (1 :> IF reloaded THEN from_dict(to_dict(live)) ELSE live)
           /\ habits = hs
           /\ habits_by_periodicity = [defaultdict_list EXCEPT ![periodicity] = <<1>>]
           /\ file = IF reloaded THEN Some(save_document((1 :> live), hs)) ELSE None
           /\ clock = MaxDate
           /\ lastOp = Op("init", "", 0, FALSE)
           /\ ret = None
           /\ raised = "none"
           /\ pc = At("stopped", 0)

NextLongest == longest_streak_for_habit("a") /\ UNCHANGED pc

SpecLongest == InitLongest /\ [][NextLongest]_vars

\* ---- claims -------------------------------------------------------------------
\* how often x occurs in the list l
Count(l, x) == Cardinality({i \in 1..Len(l) : l[i] = x})

Registered == Range(Values(habits))

InBuckets == UNION {Range(habits_by_periodicity[p]) : p \in PeriodKeys}

\* the Habit registered under name
HabitOf(hp, hs, name) == hp[Lookup(hs, name)]

\* C1: in every reachable state the Habit objects in the union of the buckets are
\* exactly those in the name map, and each of them occurs exactly once, in the
\* bucket of its own periodicity.
C1_IndexesAgree ==
    /\ InBuckets = Registered
    /\ \A r \in Registered : \A p \in PeriodKeys :
           Count(habits_by_periodicity[p], r) = IF p = heap[r].periodicity THEN 1 ELSE 0

\* C8: delete_habit(name) on a registered name leaves no habit called name in
\* what get_all_habits() returns nor in what get_habits_by_periodicity(p) returns
\* for the periodicity p the habit was registered with, and both queries return
\* every other habit as before.
C8_DeleteRemoves ==
    [][\A name \in Names :
          (lastOp'.op = "delete_habit" /\ lastOp'.name = name /\ HasKey(habits, name)) =>
              LET ref == Lookup(habits, name)
                  p == heap[ref].periodicity
                  all == Values(habits')
                  bucket == habits_by_periodicity'[p]
              IN /\ \A i \in 1..Len(all) : heap'[all[i]].name # name
                 /\ \A i \in 1..Len(bucket) : heap'[bucket[i]].name # name
                 /\ all = SeqFilter(Values(habits), Refs \ {ref})
                 /\ \A q \in PeriodKeys :
                        habits_by_periodicity'[q] =
                            SeqFilter(habits_by_periodicity[q], Refs \ {ref})
                 /\ \A r \in DOMAIN heap \ {ref} : r \in DOMAIN heap' /\ heap'[r] = heap[r]
      ]_vars

\* C9: after add_habit(name, periodicity), whether or not name was registered,
\* the name map holds under name a habit with that periodicity, no checkoffs,
\* streak 0 and no last_checkoff_date, nothing is raised, and every other name
\* is registered as before, with the same unchanged Habit.
C9_AddHabitFresh ==
    [][\A name \in Names :
          (lastOp'.op = "add_habit" /\ lastOp'.name = name) =>
              /\ HasKey(habits', name)
              /\ LET h == HabitOf(heap', habits', name)
                 IN /\ h.name = name
                    /\ h.periodicity = lastOp'.periodicity
                    /\ h.checkoffs = <<>>
                    /\ h.streak = 0
                    /\ h.last_checkoff_date = None
              /\ raised' = "none"
              /\ \A other \in Names \ {name} :
                     /\ HasKey(habits', other) = HasKey(habits, other)
                     /\ HasKey(habits, other) =>
                            /\ Lookup(habits', other) = Lookup(habits, other)
                            /\ HabitOf(heap', habits', other) = HabitOf(heap, habits, other)
      ]_vars

\* C9 witness: add_habit has just overwritten a name whose earlier habit had been
\* checked off (the earlier object is still in its bucket), while another name
\* is registered.
C9_Witness ==
    /\ lastOp.op = "add_habit"
    /\ lastOp.found
    /\ \E r \in InBuckets \ Registered :
           heap[r].name = lastOp.name /\ heap[r].checkoffs # <<>>
    /\ \E other \in Names \ {lastOp.name} : HasKey(habits, other)

\* C10: on a name that is not registered, checkoff_habit and delete_habit raise
\* nothing and leave the name map, the buckets and every Habit unchanged, and
\* longest_streak_for_habit returns 0 without raising.
C10_UnknownNameSoft ==
    [][\A name \in Names :
          (lastOp'.name = name /\ ~HasKey(habits, name)) =>
              /\ lastOp'.op \in {"checkoff_habit", "delete_habit"} =>
                     /\ raised' = "none"
                     /\ UNCHANGED <<heap, habits, habits_by_periodicity>>
              /\ lastOp'.op = "longest_streak_for_habit" =>
                     /\ raised' = "none"
                     /\ ret' = 0
      ]_vars

\* C10 witness: delete_habit has just been called with an unregistered name while
\* a habit with a checkoff is registered.
C10_Witness ==
    /\ lastOp.op = "delete_habit"
    /\ ~HasKey(habits, lastOp.name)
    /\ \E r \in Registered : heap[r].checkoffs # <<>>

\* C2: for every Habit, at every date, longest_streak() >= current_streak().
C2_LongestAtLeastCurrent ==
    \A r \in DOMAIN heap : longest_streak(heap[r]) >= current_streak(heap[r], clock)

\* C3: save_to_file followed by load_from_file on the same day yields, for every
\* habit, the longest_streak() and current_streak() it had before saving.
C3_ReloadKeepsStreaks ==
    [][(lastOp.op = "save_to_file" /\ lastOp'.op = "load_from_file") =>
          \A name \in Names :
              HasKey(habits, name) =>
                  /\ HasKey(habits', name)
                  /\ longest_streak(HabitOf(heap', habits', name))
                         = longest_streak(HabitOf(heap, habits, name))
                  /\ current_streak(HabitOf(heap', habits', name), clock')
                         = current_streak(HabitOf(heap, habits, name), clock)
      ]_vars

\* C5: checkoff() appends exactly one entry to checkoffs and sets
\* last_checkoff_date to today (the date it read); the streak becomes 1 when
\* there was a checkoff before and today - last_checkoff_date > periodicity,
\* and the previous streak plus 1 otherwise.
C5_CheckoffStep ==
    [][\A name \in Names :
          (lastOp'.op = "checkoff_habit" /\ lastOp'.name = name /\ HasKey(habits, name)) =>
              LET old == HabitOf(heap, habits, name)
                  new == HabitOf(heap', habits', name)
                  today == clock
                  lapsed == /\ old.last_checkoff_date # None
                            /\ today - old.last_checkoff_date[1] > old.periodicity
              IN /\ Len(new.checkoffs) = Len(old.checkoffs) + 1
                 /\ SubSeq(new.checkoffs, 1, Len(old.checkoffs)) = old.checkoffs
                 /\ new.last_checkoff_date = Some(today)
                 /\ new.streak = IF lapsed THEN 1 ELSE old.streak + 1
      ]_vars

\* C5 witness: a habit that was never reloaded has just been checked off a second
\* time, exactly periodicity days after the first, and its streak is 2.
C5_Witness ==
    /\ lastOp.op = "checkoff_habit"
    /\ file = None
    /\ HasKey(habits, lastOp.name)
    /\ LET h == HabitOf(heap, habits, lastOp.name)
       IN /\ Len(h.checkoffs) = 2
          /\ date(h.checkoffs[1]) < date(h.checkoffs[2])
          /\ h.last_checkoff_date = Some(date(h.checkoffs[2]))
          /\ date(h.checkoffs[2]) - date(h.checkoffs[1]) = h.periodicity
          /\ h.streak = 2

\* the value the claim gives current_streak() at date today
C7_Expected(h, today) ==
    IF h.last_checkoff_date # None /\ today - h.last_checkoff_date[1] <= h.periodicity
    THEN h.streak
    ELSE 0

\* C7: current_streak() returns the stored streak exactly when there is a
\* last_checkoff_date and today - last_checkoff_date <= periodicity, and 0
\* otherwise, and it changes no Habit; once it is 0 (as it is when more than
\* periodicity days have passed) it stays 0 at every later date until the next
\* checkoff of that habit.
C7_ReadTimeLapse ==
    [][\A name \in Names :
          /\ (lastOp'.op = "current_streak" /\ lastOp'.name = name) =>
                 /\ ret' = C7_Expected(HabitOf(heap, habits, name), clock)
                 /\ heap' = heap
          /\ (/\ HasKey(habits, name)
              /\ HasKey(habits', name)
              /\ ~(lastOp'.op = "checkoff_habit" /\ lastOp'.name = name)
              /\ C7_Expected(HabitOf(heap, habits, name), clock) = 0) =>
                 current_streak(HabitOf(heap', habits', name), clock') = 0
      ]_vars

\* C7 witness: current_streak() has just returned 0 for a habit whose stored
\* streak is 2 and whose last checkoff is more than periodicity days ago.
C7_Witness ==
    /\ lastOp.op = "current_streak"
    /\ ret = 0
    /\ LET h == HabitOf(heap, habits, lastOp.name)
       IN /\ h.streak = 2
          /\ h.last_checkoff_date # None
          /\ clock - h.last_checkoff_date[1] > h.periodicity

\* the names a dict holds, in its order
Keys(d) == [i \in 1..Len(d) |-> d[i].name]

Dates(cs) == [i \in 1..Len(cs) |-> date(cs[i])]

\* entries i..j of cs are a run: each adjacent pair at most p days apart
IsRun(cs, p, i, j) == \A k \in i..(j - 1) : date(cs[k + 1]) - date(cs[k]) <= p

\* the length of the longest run of cs, 0 when cs is empty
MaxRun(cs, p) ==
    SetMax({0} \cup {j - i + 1 : <<i, j>> \in
                        {ij \in (1..Len(cs)) \X (1..Len(cs)) :
                             ij[1] <= ij[2] /\ IsRun(cs, p, ij[1], ij[2])}})

\* C6: longest_streak() is the length of the longest run of consecutive
\* checkoffs with each adjacent pair at most periodicity days apart: 0 for no
\* checkoffs, 1 for one, 3 for periodicity 1 and days 1,2,3,5,6,7, whatever
\* the streak field holds.
C6_LongestIsMaxRun ==
    lastOp.op = "longest_streak_for_habit" =>
        LET h == HabitOf(heap, habits, lastOp.name)
        IN /\ ret = MaxRun(h.checkoffs, h.periodicity)
           /\ h.checkoffs = <<>> => ret = 0
           /\ Len(h.checkoffs) = 1 => ret = 1
           /\ (h.periodicity = 1 /\ Dates(h.checkoffs) = <<1, 2, 3, 5, 6, 7>>) => ret = 3

\* C6 witness: longest_streak() has just returned 3 for the reloaded daily habit
\* checked off on days 1,2,3,5,6,7, whose streak field is 0.
C6_Witness ==
    /\ lastOp.op = "longest_streak_for_habit"
    /\ ret = 3
    /\ LET h == HabitOf(heap, habits, lastOp.name)
       IN /\ h.periodicity = 1
          /\ Dates(h.checkoffs) = <<1, 2, 3, 5, 6, 7>>
          /\ h.streak = 0

\* C11: for every Habit, in every reachable state, last_checkoff_date is absent
\* exactly when checkoffs is empty, and otherwise it is the calendar date of the
\* last element of checkoffs.
C11_LastDateMatches ==
    \A r \in DOMAIN heap :
        LET h == heap[r]
        IN /\ (h.last_checkoff_date = None) <=> (h.checkoffs = <<>>)
           /\ h.checkoffs # <<>> =>
                  h.last_checkoff_date = Some(date(h.checkoffs[Len(h.checkoffs)]))

\* C12: every Habit with no checkoffs has streak 0, and a step changes the
\* streak of a Habit only when it is checkoff() on that Habit: no other
\* operation of the tracker and no checkoff of another habit changes it.
C12_StreakOnlyByCheckoff ==
    [][/\ \A r \in DOMAIN heap : heap[r].checkoffs = <<>> => heap[r].streak = 0
       /\ \A r \in DOMAIN heap' : heap'[r].checkoffs = <<>> => heap'[r].streak = 0
       /\ \A r \in DOMAIN heap \cap DOMAIN heap' :
              heap'[r].streak # heap[r].streak =>
                  /\ lastOp'.op = "checkoff_habit"
                  /\ HasKey(habits, lastOp'.name)
                  /\ Lookup(habits, lastOp'.name) = r
      ]_vars

\* C12 witness: a habit has just been checked off for the first time while
\* another registered habit, checked off once before, still has streak 1.
C12_Witness ==
    /\ lastOp.op = "checkoff_habit"
    /\ HasKey(habits, lastOp.name)
    /\ LET r == Lookup(habits, lastOp.name)
       IN /\ heap[r].streak = 1
          /\ Len(heap[r].checkoffs) = 1
          /\ \E q \in Registered \ {r} :
                 heap[q].streak = 1 /\ Len(heap[q].checkoffs) = 1

\* the date of the last checkoff of a Habit that has one
LastCheckoff(h) == date(h.checkoffs[Len(h.checkoffs)])

\* C13: habits_struggled_last_month() returns exactly the names of the registered
\* habits that have no checkoffs or whose last checkoff is more than 30 days
\* before today, each once: a habit last checked off exactly 30 days ago is not
\* in the result, one last checked off 31 days ago is, and a name that is not
\* registered (deleted) is never in it.
C13_StruggledExact ==
    lastOp.op = "habits_struggled_last_month" =>
        /\ Range(ret) =
               {name \in Names :
                   /\ HasKey(habits, name)
                   /\ LET h == HabitOf(heap, habits, name)
                      IN h.checkoffs = <<>> \/ clock - LastCheckoff(h) > 30}
        /\ Len(ret) = Cardinality(Range(ret))
        /\ \A name \in Names :
               /\ ~HasKey(habits, name) => name \notin Range(ret)
               /\ HasKey(habits, name) =>
                      LET h == HabitOf(heap, habits, name)
                      IN /\ (h.checkoffs # <<>> /\ clock - LastCheckoff(h) = 30) =>
                                name \notin Range(ret)
                         /\ (h.checkoffs # <<>> /\ clock - LastCheckoff(h) = 31) =>
                                name \in Range(ret)

\* C13 witness: the report has just named a habit last checked off 31 days ago
\* and left out a registered habit last checked off exactly 30 days ago.
C13_Witness ==
    /\ lastOp.op = "habits_struggled_last_month"
    /\ \E n31, n30 \in Names :
           /\ HasKey(habits, n31)
           /\ HasKey(habits, n30)
           /\ LET h31 == HabitOf(heap, habits, n31)
                  h30 == HabitOf(heap, habits, n30)
              IN /\ h31.checkoffs # <<>>
                 /\ h30.checkoffs # <<>>
                 /\ clock - LastCheckoff(h31) = 31
                 /\ clock - LastCheckoff(h30) = 30
           /\ ret = <<n31>>

\* C14: longest_streak_all() returns the maximum of longest_streak() over exactly
\* the Habits in the name map, and 0 when the name map is empty; a Habit that
\* was deleted or replaced under its name does not count.
C14_LongestAllOverNameMap ==
    lastOp.op = "longest_streak_all" =>
        /\ ret = SetMax({0} \cup {longest_streak(heap[r]) : r \in Registered})
        /\ habits = <<>> => ret = 0
        /\ habits # <<>> => \E r \in Registered : ret = longest_streak(heap[r])

\* C14 witness: longest_streak_all() has just returned 0 for a tracker whose only
\* registered habit replaced one with a longest streak of 2, which is still in
\* its bucket.
C14_Witness ==
    /\ lastOp.op = "longest_streak_all"
    /\ ret = 0
    /\ habits # <<>>
    /\ \E r \in InBuckets \ Registered : longest_streak(heap[r]) = 2

\* C15: get_habits_by_periodicity(p) raises nothing; when no registered habit
\* has periodicity p (p was never used, or its habits were all deleted) it
\* returns the empty sequence; and the call leaves the name map, every Habit and
\* the Habits in every bucket as they were.
C15_BucketQuerySoft ==
    [][\A p \in PeriodKeys :
          (lastOp'.op = "get_habits_by_periodicity" /\ lastOp'.periodicity = p) =>
              /\ raised' = "none"
              /\ {r \in Registered : heap[r].periodicity = p} = {} => ret' = <<>>
              /\ habits' = habits
              /\ heap' = heap
              /\ \A q \in PeriodKeys : habits_by_periodicity'[q] = habits_by_periodicity[q]
      ]_vars

\* C16: load_from_file while habits.json does not exist raises nothing and
\* yields an empty tracker: afterwards the name map is empty and so is every
\* periodicity bucket.
C16_MissingFileEmptyTracker ==
    [][(lastOp'.op = "load_from_file" /\ file = None) =>
          /\ raised' = "none"
          /\ habits' = <<>>
          /\ \A p \in PeriodKeys : habits_by_periodicity'[p] = <<>>
      ]_vars

\* the length of the trailing run of cs: the longest suffix in which each
\* adjacent pair is at most p days apart, 0 when cs is empty
TrailingRun(cs, p) ==
    SetMax({0} \cup {Len(cs) - i + 1 : i \in {k \in 1..Len(cs) : IsRun(cs, p, k, Len(cs))}})

\* C17: right after checkoff() on a habit, its stored streak is the length of the
\* trailing run of its checkoffs, whether the habit was created by add_habit or
\* its history was restored by from_dict / load_from_file before the checkoff.
C17_StreakIsTrailingRun ==
    [][\A name \in Names :
          (lastOp'.op = "checkoff_habit" /\ lastOp'.name = name /\ HasKey(habits, name)) =>
              LET new == HabitOf(heap', habits', name)
              IN new.streak = TrailingRun(new.checkoffs, new.periodicity)
      ]_vars

\* how often Habit objects called name occur in the buckets
BucketEntries(name) ==
    Cardinality({pi \in PeriodKeys \X Refs :
                    /\ pi[2] <= Len(habits_by_periodicity[pi[1]])
                    /\ heap[habits_by_periodicity[pi[1]][pi[2]]].name = name})

\* C18: checkoffs persist across the sessions of cli(): when a session has
\* finished its startup (load_from_file, then the predefined habits), every
\* habit that the session before it saved on leaving through option 8, the five
\* predefined ones among them, is registered and has every checkoff it was
\* saved with, those recorded in that session included; and every registered
\* habit is in exactly one periodicity bucket.
C18_CheckoffsSurviveRestart ==
    (pc = At("name", 0) /\ file # None) =>
        /\ \A k \in 1..Len(file[1]) :
               LET saved == from_dict(file[1][k].value)
               IN /\ HasKey(habits, file[1][k].key)
                  /\ \A j \in 1..Len(saved.checkoffs) :
                         Count(HabitOf(heap, habits, file[1][k].key).checkoffs,
                               saved.checkoffs[j])
                             >= Count(saved.checkoffs, saved.checkoffs[j])
        /\ \A k \in 1..Len(habits) : BucketEntries(habits[k].name) = 1

\* cli() has ended: by the break of option 8, or by an exception
Ended(p) == p.at \in {"exit", "traceback"}

\* C19: whatever is typed at a prompt (no valid menu choice, no valid yes/no
\* answer, no integer at the periodicity prompt of option 2 or 4), a step that
\* ends cli() is option 8, which has saved the tracker to habits.json.
C19_EndsOnlyBySaving ==
    [][(~Ended(pc) /\ Ended(pc')) =>
          /\ pc' = At("exit", 0)
          /\ raised' = "none"
          /\ lastOp'.op = "save_to_file"
          /\ file' = Some(save_document(heap, habits))
      ]_vars

====
